---------------------------- MODULE Spec2Model ----------------------------
(***************************************************************************)
(* Proof-of-History entry chain and its verifier (ledger/src/entry.rs).    *)
(*                                                                         *)
(* Digests are modelled as terms: a digest is the sequence of hash steps   *)
(* that produced it, so two digests are equal exactly when they were       *)
(* computed the same way (an ideal, collision-free SHA-256).               *)
(*   <<>>                       Hash::default(), the all-zero digest       *)
(*   Append(h, 0)               one plain SHA-256 iteration over h         *)
(*   h \o <<-2>> \o m \o <<-3>> one iteration over h with mixin m          *)
(*   <<-1>> \o sigs             Merkle root over the signature list sigs   *)
(*   <<-9>>                     a digest unrelated to every chain          *)
(***************************************************************************)
EXTENDS Integers, Sequences, FiniteSets, TLC

(***************************************************************************)
(* Bounds of the model.                                                    *)
(***************************************************************************)
\* longest slice whose entries are drawn field by field
MaxLen == 2
\* largest num_hashes of an entry handed to the PoH verifier
MaxNumHashes == 2
\* number of finish_verify calls made on one verification state
MaxCalls == 2
\* longest slice handed to verify_tick_hash_count
MaxTickLen == 2
\* largest value of the (scaled-down) unsigned counter type: u64 is modelled
\* as the integers modulo MaxU64 + 1
MaxU64 == 3
\* number of calls of a constructor taking &mut made on one running hash
MaxDepth == 1
\* longest slice of the runs checked for termination
MaxLiveLen == 1
\* number of threads calling init_poh and api
MaxThreads == 2

(***************************************************************************)
(* Program constants.                                                      *)
(***************************************************************************)
\* verify_cpu: shortest slice sent to the AVX-512 backend
Avx512MinLen == 128
\* verify_cpu: shortest slice sent to the AVX2 backend
Avx2MinLen == 48
\* lanes of poh_verify_many_simd_avx2
SimdLenAvx2 == 8
\* lanes of poh_verify_many_simd_avx512skx
SimdLenAvx512 == 16

(***************************************************************************)
(* Hash primitive (crate::poh::Poh, solana_sdk::hash).                     *)
(***************************************************************************)
Zero == <<>>

Sha(h) == Append(h, 0)

Hashv(h, mixin) == h \o <<-2>> \o mixin \o <<-3>>

One == Sha(Zero)

Garbage == <<-9>>

RECURSIVE PohHash(_, _)
\* Poh::hash(n): n plain iterations
PohHash(h, n) == IF n = 0 THEN h ELSE PohHash(Sha(h), n - 1)

\* Poh::tick(): one more iteration, no mixin
PohTick(h) == Sha(h)

\* Poh::record(mixin): one more iteration with a mixin
PohRecord(h, mixin) == Hashv(h, mixin)

\* MerkleTree::new(&signatures).get_root(): None for no leaves
MerkleRoot(sigs) == <<-1>> \o sigs

\* u64::saturating_sub(1)
SaturatingSub1(n) == IF n = 0 THEN 0 ELSE n - 1

(***************************************************************************)
(* Transactions (solana_sdk::transaction::Transaction).  A transaction     *)
(* carries a message and its signature list; verify() accepts exactly the  *)
(* signature list the message's signers produce.                           *)
(***************************************************************************)
Tx(m, sigs) == [message |-> m, signatures |-> sigs]

\* the signatures the signers of message m produce
SignedBy(m) == CASE m = 1 -> <<1>>
                 [] m = 2 -> <<2>>
                 [] m = 3 -> <<3>>
                 [] m = 4 -> <<4, 5>>
                 [] OTHER -> <<>>

\* Transaction::verify().is_ok()
TxVerify(tx) == tx.signatures = SignedBy(tx.message)

\* Transaction::verify_precompiles().is_ok(): message 3 carries a secp256k1
\* instruction that does not verify
TxVerifyPrecompiles(tx) == tx.message # 3

txA == Tx(1, <<1>>)
txB == Tx(2, <<2>>)
\* a well-signed transaction whose precompile fails
txPre == Tx(3, <<3>>)
\* txA with its signature replaced by Signature::default()
txBad == Tx(1, <<9>>)
\* txA with its signature list truncated
txCut == Tx(1, <<>>)
\* a transaction with two signers
txM == Tx(4, <<4, 5>>)
\* the message of txB under the signature of txA
txB1 == Tx(2, <<1>>)
\* Signature::default()
DefaultSig == 9

(***************************************************************************)
(* Entry and the hash kernel.                                              *)
(***************************************************************************)
Entry(n, h, txs) == [num_hashes |-> n, hash |-> h, transactions |-> txs]

is_tick(e) == e.transactions = <<>>

RECURSIVE Signatures(_)
\* transactions.iter().flat_map(|tx| tx.signatures.iter())
Signatures(txs) ==
    IF txs = <<>> THEN <<>> ELSE Head(txs).signatures \o Signatures(Tail(txs))

\* hash_transactions over the signatures in sorted order
hash_transactions_Sorted(txs) ==
    LET signatures == SortSeq(Signatures(txs), LAMBDA a, b : a < b)
    IN  IF signatures = <<>> THEN Zero ELSE MerkleRoot(signatures)

hash_transactions(txs) ==
    LET signatures == Signatures(txs)
    IN  IF signatures = <<>> THEN Zero ELSE MerkleRoot(signatures)

\* next_hash running num_hashes plain iterations before the finalizing step
next_hash_FullCount(start_hash, num_hashes, txs) ==
    IF num_hashes = 0 /\ txs = <<>>
    THEN start_hash
    ELSE LET poh == PohHash(start_hash, num_hashes)
         IN  IF txs = <<>> THEN PohTick(poh)
                           ELSE PohRecord(poh, hash_transactions(txs))

next_hash(start_hash, num_hashes, txs) ==
    IF num_hashes = 0 /\ txs = <<>>
    THEN start_hash
    ELSE LET poh == PohHash(start_hash, SaturatingSub1(num_hashes))
         IN  IF txs = <<>> THEN PohTick(poh)
                           ELSE PohRecord(poh, hash_transactions(txs))

\* Entry::verify
EntryVerify(e, start_hash) ==
    e.hash = next_hash(start_hash, e.num_hashes, e.transactions)

compare_hashes(computed_hash, ref_entry) ==
    IF ref_entry.num_hashes = 0
    THEN computed_hash = ref_entry.hash
    ELSE IF ref_entry.transactions = <<>>
         THEN PohTick(computed_hash) = ref_entry.hash
         ELSE PohRecord(computed_hash, hash_transactions(ref_entry.transactions))
                  = ref_entry.hash

(***************************************************************************)
(* PoH backends.                                                           *)
(***************************************************************************)
\* genesis.iter().chain(self): the stored hash before position i (1-based)
PrevHash(slice, start_hash, i) == IF i = 1 THEN start_hash ELSE slice[i - 1].hash

\* verify_cpu_generic pairing each entry with the entry after it: the last
\* entry is left unchecked
verify_cpu_generic_SkipLast(slice, start_hash) ==
    \A i \in 1..(Len(slice) - 1) :
        EntryVerify(slice[i], PrevHash(slice, start_hash, i))

\* verify_cpu_generic: every (previous, entry) pair verifies
verify_cpu_generic(slice, start_hash) ==
    \A i \in 1..Len(slice) : EntryVerify(slice[i], PrevHash(slice, start_hash, i))

\* the native batch routines: every lane advanced by its iteration count
PohVerifyMany(hashes, num_hashes) ==
    [k \in 1..Len(hashes) |-> PohHash(hashes[k], num_hashes[k])]

AlignedLen(len, simd_len) == ((len + simd_len - 1) \div simd_len) * simd_len

\* verify_cpu_x86_simd: the lanes of the padded buffers, chunk by chunk
SimdHashes(slice, start_hash, simd_len) ==
    [k \in 1..AlignedLen(Len(slice), simd_len) |->
        IF k <= Len(slice) THEN PrevHash(slice, start_hash, k) ELSE Zero]

\* SimdNumHashes without saturating_sub(1)
SimdNumHashes_FullCount(slice, simd_len) ==
    [k \in 1..AlignedLen(Len(slice), simd_len) |->
        IF k <= Len(slice) THEN slice[k].num_hashes ELSE 0]

SimdNumHashes(slice, simd_len) ==
    [k \in 1..AlignedLen(Len(slice), simd_len) |->
        IF k <= Len(slice) THEN SaturatingSub1(slice[k].num_hashes) ELSE 0]

verify_cpu_x86_simd(slice, start_hash, simd_len) ==
    LET hashes_bytes == SimdHashes(slice, start_hash, simd_len)
        num_hashes == SimdNumHashes(slice, simd_len)
        chunks == 0..((Len(hashes_bytes) \div simd_len) - 1)
        ChunkOf(v, i) == SubSeq(v, i * simd_len + 1, (i + 1) * simd_len)
    IN  \A i \in chunks :
          LET chunk == PohVerifyMany(ChunkOf(hashes_bytes, i), ChunkOf(num_hashes, i))
              entry_start == i * simd_len
              entry_end == IF entry_start + simd_len < Len(slice)
                           THEN entry_start + simd_len ELSE Len(slice)
          IN  \A j \in 0..(entry_end - entry_start - 1) :
                compare_hashes(chunk[j + 1], slice[entry_start + j + 1])

\* lines 418-446: the hash the batch routine leaves in lane k of its chunk
SimdLaneHash(slice, start_hash, simd_len, k) ==
    LET hashes_bytes == SimdHashes(slice, start_hash, simd_len)
        num_hashes == SimdNumHashes(slice, simd_len)
        i == (k - 1) \div simd_len
        ChunkOf(v) == SubSeq(v, i * simd_len + 1, (i + 1) * simd_len)
    IN  PohVerifyMany(ChunkOf(hashes_bytes), ChunkOf(num_hashes))[k - i * simd_len]

\* verify_cpu choosing by the CPU features alone
verify_cpu_backend_NoLen(simd_api, has_avx2, has_avx512, len) ==
    IF simd_api
    THEN IF has_avx512 THEN "simd16"
         ELSE IF has_avx2 THEN "simd8"
         ELSE "generic"
    ELSE "generic"

\* verify_cpu: the backend chosen from the SIMD library, the CPU features and
\* the slice length
verify_cpu_backend(simd_api, has_avx2, has_avx512, len) ==
    IF simd_api
    THEN IF has_avx512 /\ len >= Avx512MinLen THEN "simd16"
         ELSE IF has_avx2 /\ len >= Avx2MinLen THEN "simd8"
         ELSE "generic"
    ELSE "generic"

\* verify_cpu: the simd_len it passes to verify_cpu_x86_simd
BackendSimdLen(backend) ==
    CASE backend = "simd16" -> SimdLenAvx512
      [] backend = "simd8" -> SimdLenAvx2
      [] OTHER -> 0

\* verify_cpu_x86_simd: the match on simd_len inside the chunk closure
SimdEntryPoint(simd_len) ==
    CASE simd_len = 8 -> "poh_verify_many_simd_avx2"
      [] simd_len = 16 -> "poh_verify_many_simd_avx512skx"
      [] OTHER -> "panic"

\* the verdict of the CPU backend verify_cpu calls
RunCpuBackend(backend, slice, start_hash) ==
    CASE backend = "simd16" -> verify_cpu_x86_simd(slice, start_hash, SimdLenAvx512)
      [] backend = "simd8" -> verify_cpu_x86_simd(slice, start_hash, SimdLenAvx2)
      [] OTHER -> verify_cpu_generic(slice, start_hash)

\* lines 496-506: the closure applied to one transaction
CheckTransaction(transaction, secp256k1_program_enabled) ==
    LET sig_verify == TxVerify(transaction)
    IN  IF sig_verify /\ secp256k1_program_enabled
           /\ ~TxVerifyPrecompiles(transaction)
        THEN FALSE
        ELSE sig_verify

\* lines 495-496: the transactions the two nested par_iter() reach, as
\* <<entry, transaction>> positions
TxPositions(slice) ==
    UNION {{<<i, t>> : t \in 1..Len(slice[i].transactions)} :
             i \in 1..Len(slice)}

\* all(): the closure applied to the positions not yet examined, in the
\* order the pool happens to take them; the first false ends the search
RECURSIVE ParAll(_, _, _)
ParAll(slice, secp256k1_program_enabled, todo) ==
    IF todo = {} THEN {TRUE}
    ELSE UNION {
           IF CheckTransaction(slice[p[1]].transactions[p[2]],
                               secp256k1_program_enabled)
           THEN ParAll(slice, secp256k1_program_enabled, todo \ {p})
           ELSE {FALSE} : p \in todo}

\* verify_transaction_signatures never asking verify_precompiles
verify_transaction_signatures_NoPrecompiles(slice, secp256k1_program_enabled) ==
    \A i \in 1..Len(slice) :
      \A t \in 1..Len(slice[i].transactions) :
        TxVerify(slice[i].transactions[t])

verify_transaction_signatures(slice, secp256k1_program_enabled) ==
    \A i \in 1..Len(slice) :
      \A t \in 1..Len(slice[i].transactions) :
        LET transaction == slice[i].transactions[t]
            sig_verify == TxVerify(transaction)
        IN  IF sig_verify /\ secp256k1_program_enabled
               /\ ~TxVerifyPrecompiles(transaction)
            THEN FALSE
            ELSE sig_verify

(***************************************************************************)
(* GPU backend: the buffers start_verify hands to the worker, and the      *)
(* finalization of finish_verify.                                          *)
(***************************************************************************)
NoHash == [some |-> FALSE, hash |-> Zero]
SomeHash(h) == [some |-> TRUE, hash |-> h]

\* genesis.iter().chain(self).map(|entry| entry.hash).take(self.len())
GpuHashes(slice, start_hash) ==
    [k \in 1..Len(slice) |-> PrevHash(slice, start_hash, k)]

\* entry.num_hashes.saturating_sub(1) for each entry
GpuNumHashes(slice) ==
    [k \in 1..Len(slice) |-> SaturatingSub1(slice[k].num_hashes)]

\* the per-entry transaction hashes start_verify precomputes
GpuTxHashes(slice) ==
    [k \in 1..Len(slice) |->
        IF slice[k].transactions = <<>> THEN NoHash
        ELSE SomeHash(hash_transactions(slice[k].transactions))]

Min(a, b) == IF a < b THEN a ELSE b

\* finish_verify: the closure applied to one (hash, tx_hash, answer) triple
GpuCheckEntry(hash, tx_hash, answer) ==
    IF answer.num_hashes = 0
    THEN hash = answer.hash
    ELSE IF tx_hash.some
         THEN PohRecord(hash, tx_hash.hash) = answer.hash
         ELSE PohTick(hash) = answer.hash

\* GpuCheckAll rejecting a slice of another length than the buffer
GpuCheckAll_SameLen(hashes, tx_hashes, entries) ==
    /\ Len(entries) = Len(hashes)
    /\ \A k \in 1..Len(hashes) :
          GpuCheckEntry(hashes[k], tx_hashes[k], entries[k])

\* finish_verify: hashes.zip(tx_hashes).zip(entries).all(...)
GpuCheckAll(hashes, tx_hashes, entries) ==
    \A k \in 1..Min(Min(Len(hashes), Len(tx_hashes)), Len(entries)) :
        GpuCheckEntry(hashes[k], tx_hashes[k], entries[k])

(***************************************************************************)
(* Inputs.  An entry is drawn field by field: its num_hashes is 0, 1 or    *)
(* the largest count, its stored hash is the hash next_hash gives for the  *)
(* stored previous hash or a different digest (that previous hash itself,  *)
(* or an unrelated digest where the two coincide).  Long slices extend a   *)
(* drawn entry with a chain of ticks up to the lengths at which verify_cpu *)
(* changes backend.                                                        *)
(***************************************************************************)
NumHashesValues == {0, 1, MaxNumHashes}

TxLists == {<<>>, <<txA>>, <<txBad>>, <<txPre>>}

StartHashes == {Zero, One}

HashValues(prev, n, txs) ==
    LET h == next_hash(prev, n, txs)
    IN  {h, IF h = prev THEN Garbage ELSE prev}

EntriesAfter(prev) ==
    { Entry(n, h, txs) : <<n, txs, h>> \in
        UNION { { <<n, txs, h>> : h \in HashValues(prev, n, txs) } :
                <<n, txs>> \in NumHashesValues \X TxLists } }

RECURSIVE SlicesFrom(_, _)
SlicesFrom(prev, len) ==
    IF len = 0 THEN { <<>> }
    ELSE { <<>> } \cup
         UNION { { <<e>> \o rest : rest \in SlicesFrom(e.hash, len - 1) } :
                 e \in EntriesAfter(prev) }

LastHash(slice, start_hash) ==
    IF slice = <<>> THEN start_hash ELSE slice[Len(slice)].hash

RECURSIVE PadWithTicks(_, _, _)
\* the slice extended to length len by create_ticks(.., MaxNumHashes, last hash)
PadWithTicks(slice, start_hash, len) ==
    IF Len(slice) >= len THEN slice
    ELSE LET prev == LastHash(slice, start_hash)
         IN  PadWithTicks(
                 Append(slice, Entry(MaxNumHashes,
                                     next_hash(prev, MaxNumHashes, <<>>), <<>>)),
                 start_hash, len)

LongLens == {Avx2MinLen, Avx2MinLen + 1, Avx512MinLen, Avx512MinLen + 1}

LongSeeds(start_hash) ==
    { <<Entry(n, h, txs)>> : <<n, h, txs>> \in
        {<<MaxNumHashes, next_hash(start_hash, MaxNumHashes, <<>>), <<>>>>,
         <<1, Garbage, <<>>>>,
         <<0, next_hash(start_hash, 0, <<txA>>), <<txA>>>>,
         <<0, start_hash, <<txA>>>>} }

LongSlices(start_hash) ==
    { PadWithTicks(seed, start_hash, len) :
        <<seed, len>> \in LongSeeds(start_hash) \X LongLens }

Slices(start_hash) == SlicesFrom(start_hash, MaxLen) \cup LongSlices(start_hash)

\* every measured interval (Instant::elapsed, Measure) reads one unit
ElapsedUs == 1

(***************************************************************************)
(* State.                                                                  *)
(***************************************************************************)
VARIABLES
    slice,          \* the caller's entries
    start_hash,     \* the caller's start hash
    secp256k1,      \* secp256k1_program_enabled of the start_verify call
    gpu_api,        \* perf_libs::api().is_some()
    pc,             \* where the caller is
    state,          \* the EntryVerificationState, NoState before start_verify returns
    gpu_thread,     \* the gpu_verify_thread
    pinned,         \* the Arc<Mutex<PinnedVec<Hash>>> and the count buffer
    call,           \* the finish_verify call: its argument and what it returned
    hist,           \* what has been executed so far
    bk,             \* backend comparison: the verdict of each backend
    tk,             \* verify_tick_hash_count: inputs, carry and result
    mk,             \* entry construction: the last call, its arguments and result
    tm,             \* tampering: the slice as built, the change made, the verdicts
    lib             \* perf_libs: the static API, the two Once hooks, the threads

vars == <<slice, start_hash, secp256k1, gpu_api, pc, state, gpu_thread, pinned,
          call, hist, bk, tk, mk, tm, lib>>

NoState ==
    [verification_status |-> "NoState", poh_duration_us |-> 0,
     transaction_duration_us |-> 0, device |-> "None",
     thread_h |-> FALSE, hashes |-> FALSE, tx_hashes |-> <<>>]

\* EntryVerificationState with DeviceVerificationData::CPU()
CpuState(status, poh_us, tx_us) ==
    [verification_status |-> status, poh_duration_us |-> poh_us,
     transaction_duration_us |-> tx_us, device |-> "CPU",
     thread_h |-> FALSE, hashes |-> FALSE, tx_hashes |-> <<>>]

\* EntryVerificationState with DeviceVerificationData::GPU(GpuVerificationData)
GpuState(poh_us, tx_us, tx_hashes) ==
    [verification_status |-> "Pending", poh_duration_us |-> poh_us,
     transaction_duration_us |-> tx_us, device |-> "GPU",
     thread_h |-> TRUE, hashes |-> TRUE, tx_hashes |-> tx_hashes]

StatusOf(res) == IF res THEN "Success" ELSE "Failure"

NoThread == [pc |-> "none", res |-> 0]
NoPinned == [hashes |-> <<>>, num_hashes |-> <<>>, refs |-> 0,
             locked |-> FALSE, poisoned |-> FALSE]
NoCall == [entries |-> <<>>, ret |-> "none", calls |-> 0]
NoHist == [sig_res |-> "none", backend |-> "none", spawned |-> 0,
           joins |-> 0, checks |-> 0, verdicts |-> 0]
NoBk == [done |-> FALSE, generic |-> FALSE, simd8 |-> FALSE, simd16 |-> FALSE,
         gpu |-> FALSE]
NoSplit == [done |-> FALSE, at |-> 0, first |-> "none", second |-> "none",
            tick_hash_count |-> 0]
NoTk == [done |-> FALSE, carry_in |-> 0, hashes_per_tick |-> 0,
         overflow_checks |-> FALSE, tick_hash_count |-> 0, ret |-> "none",
         split |-> NoSplit]
NoMk == [op |-> "none", prev |-> Zero, num_hashes |-> 0, transactions |-> <<>>,
         num_ticks |-> 0, ret |-> <<>>, hash |-> Zero, counter |-> 0,
         panic |-> FALSE, depth |-> 0]
NoEnv == [gpu_api |-> FALSE, simd_api |-> FALSE, has_avx2 |-> FALSE,
          has_avx512 |-> FALSE, native_ok |-> TRUE]
NoTm == [op |-> "none", orig |-> <<>>, at |-> <<>>, first |-> "none",
         ret |-> "none", env |-> NoEnv, backend |-> "none",
         simd_call |-> "none"]

\* the threads of the process that use perf_libs
Threads == 1..MaxThreads

\* static mut API = None and both INIT_HOOK = Once::new() (lines 41, 48, 72)
NoLib ==
    [test_perf_libs |-> FALSE, API |-> "None", writing |-> FALSE,
     loaded |-> "None", init_hook |-> "new", api_hook |-> "new",
     loads |-> 0, writes |-> 0, race |-> FALSE,
     th |-> [t \in Threads |-> [pc |-> "idle", op |-> "none", calls |-> 0,
                                ret |-> "none"]]]

InitVerify ==
    /\ lib = NoLib
    /\ start_hash \in StartHashes
    /\ slice \in Slices(start_hash)
    /\ secp256k1 \in BOOLEAN
    /\ gpu_api \in BOOLEAN
    /\ pc = "idle"
    /\ state = NoState
    /\ gpu_thread = NoThread
    /\ pinned = NoPinned
    /\ call = NoCall
    /\ hist = NoHist

Init == InitVerify /\ bk = NoBk /\ tk = NoTk /\ mk = NoMk /\ tm = NoTm

(***************************************************************************)
(* start_verify.                                                           *)
(***************************************************************************)
OtherUnchanged ==
    UNCHANGED <<slice, start_hash, secp256k1, gpu_api, bk, tk, mk, tm, lib>>

\* StartVerifySigFail with the check of res moved after the PoH pass
StartVerifySigFail_PohFirst ==
    /\ pc = "idle"
    /\ ~verify_transaction_signatures(slice, secp256k1)
    /\ state' = CpuState("Failure", ElapsedUs, ElapsedUs)
    /\ hist' = [hist EXCEPT !.sig_res = FALSE, !.backend = "generic"]
    /\ pc' = "ready"
    /\ UNCHANGED <<gpu_thread, pinned, call>>
    /\ OtherUnchanged

\* lines 517-527: signature verification failed
StartVerifySigFail ==
    /\ pc = "idle"
    /\ ~verify_transaction_signatures(slice, secp256k1)
    /\ state' = CpuState("Failure", 0, ElapsedUs)
    /\ hist' = [hist EXCEPT !.sig_res = FALSE]
    /\ pc' = "ready"
    /\ UNCHANGED <<gpu_thread, pinned, call>>
    /\ OtherUnchanged

\* StartVerifyCpu dropping the verdict of the backend
StartVerifyCpu_AlwaysSuccess ==
    /\ pc = "idle"
    /\ verify_transaction_signatures(slice, secp256k1)
    /\ ~gpu_api
    /\ \E simd_api \in BOOLEAN, has_avx2 \in BOOLEAN, has_avx512 \in BOOLEAN :
         LET backend == verify_cpu_backend(simd_api, has_avx2, has_avx512, Len(slice))
         IN  /\ state' = CpuState("Success", ElapsedUs, ElapsedUs)
             /\ hist' = [hist EXCEPT !.sig_res = TRUE, !.backend = backend]
    /\ pc' = "ready"
    /\ UNCHANGED <<gpu_thread, pinned, call>>
    /\ OtherUnchanged

\* lines 529-535: no GPU entry point, the CPU backend runs to completion
StartVerifyCpu ==
    /\ pc = "idle"
    /\ verify_transaction_signatures(slice, secp256k1)
    /\ ~gpu_api
    /\ \E simd_api \in BOOLEAN, has_avx2 \in BOOLEAN, has_avx512 \in BOOLEAN :
         LET backend == verify_cpu_backend(simd_api, has_avx2, has_avx512, Len(slice))
             res == RunCpuBackend(backend, slice, start_hash)
         IN  /\ state' = CpuState(StatusOf(res), ElapsedUs, ElapsedUs)
             /\ hist' = [hist EXCEPT !.sig_res = TRUE, !.backend = backend]
    /\ pc' = "ready"
    /\ UNCHANGED <<gpu_thread, pinned, call>>
    /\ OtherUnchanged

\* StartVerifySpawn with the caller keeping the buffer locked
StartVerifySpawn_HoldsLock ==
    /\ pc = "idle"
    /\ verify_transaction_signatures(slice, secp256k1)
    /\ gpu_api
    /\ pinned' = [hashes |-> GpuHashes(slice, start_hash),
                  num_hashes |-> GpuNumHashes(slice),
                  refs |-> 2, locked |-> TRUE, poisoned |-> FALSE]
    /\ gpu_thread' = [pc |-> "spawned", res |-> 0]
    /\ hist' = [hist EXCEPT !.sig_res = TRUE, !.backend = "gpu",
                            !.spawned = @ + 1]
    /\ pc' = "spawned"
    /\ UNCHANGED <<state, call>>
    /\ OtherUnchanged

\* lines 536-589: the buffers are filled and the worker is spawned
StartVerifySpawn ==
    /\ pc = "idle"
    /\ verify_transaction_signatures(slice, secp256k1)
    /\ gpu_api
    /\ pinned' = [hashes |-> GpuHashes(slice, start_hash),
                  num_hashes |-> GpuNumHashes(slice),
                  refs |-> 2, locked |-> FALSE, poisoned |-> FALSE]
    /\ gpu_thread' = [pc |-> "spawned", res |-> 0]
    /\ hist' = [hist EXCEPT !.sig_res = TRUE, !.backend = "gpu",
                            !.spawned = @ + 1]
    /\ pc' = "spawned"
    /\ UNCHANGED <<state, call>>
    /\ OtherUnchanged

\* StartVerifyReturn waiting for the worker before it returns
StartVerifyReturn_Waits ==
    /\ pc = "spawned"
    /\ gpu_thread.pc = "finished"
    /\ state' = GpuState(ElapsedUs, ElapsedUs, GpuTxHashes(slice))
    /\ pc' = "ready"
    /\ UNCHANGED <<gpu_thread, pinned, call, hist>>
    /\ OtherUnchanged

\* lines 591-615: the transaction hashes are computed, the Pending state returned
StartVerifyReturn ==
    /\ pc = "spawned"
    /\ state' = GpuState(ElapsedUs, ElapsedUs, GpuTxHashes(slice))
    /\ pc' = "ready"
    /\ UNCHANGED <<gpu_thread, pinned, call, hist>>
    /\ OtherUnchanged

(***************************************************************************)
(* gpu_verify_thread (lines 569-589).                                      *)
(***************************************************************************)
\* hashes_clone.lock().unwrap()
GpuThreadLock ==
    /\ gpu_thread.pc = "spawned"
    /\ ~pinned.locked
    /\ pinned' = [pinned EXCEPT !.locked = TRUE]
    /\ gpu_thread' = [gpu_thread EXCEPT !.pc = "running"]
    /\ UNCHANGED <<pc, state, call, hist>>
    /\ OtherUnchanged

\* poh_verify_many returned zero: the thread ends with the elapsed time,
\* releasing the lock and its reference
GpuThreadDone ==
    /\ gpu_thread.pc = "running"
    /\ pinned' = [pinned EXCEPT
                    !.hashes = PohVerifyMany(pinned.hashes, pinned.num_hashes),
                    !.locked = FALSE, !.refs = @ - 1]
    /\ gpu_thread' = [pc |-> "finished", res |-> 0]
    /\ UNCHANGED <<pc, state, call, hist>>
    /\ OtherUnchanged

\* GpuThreadPanic without the check of res: the thread ends normally
GpuThreadPanic_Ignored ==
    /\ gpu_thread.pc = "running"
    /\ pinned' = [pinned EXCEPT !.locked = FALSE, !.refs = @ - 1]
    /\ gpu_thread' = [pc |-> "finished", res |-> 1]
    /\ UNCHANGED <<pc, state, call, hist>>
    /\ OtherUnchanged

\* poh_verify_many returned non-zero: panic!("GPU PoH verify many failed"),
\* the unwinding poisons the lock and drops the reference
GpuThreadPanic ==
    /\ gpu_thread.pc = "running"
    /\ pinned' = [pinned EXCEPT !.locked = FALSE, !.poisoned = TRUE,
                                !.refs = @ - 1]
    /\ gpu_thread' = [pc |-> "panicked", res |-> 1]
    /\ UNCHANGED <<pc, state, call, hist>>
    /\ OtherUnchanged

(***************************************************************************)
(* finish_verify (lines 257-304).                                          *)
(***************************************************************************)
\* the slices a caller passes to finish_verify: the verified slice, the slice
\* without its last entry, the slice with its last hash overwritten
FinishArgs ==
    {slice, Append(slice, Entry(1, Garbage, <<>>))} \cup
    (IF slice = <<>> THEN {}
     ELSE {SubSeq(slice, 1, Len(slice) - 1),
           [slice EXCEPT ![Len(slice)].hash = Garbage]})

\* FinishVerifyCpu verifying the entries it is given again
FinishVerifyCpu_Recheck ==
    /\ pc = "ready"
    /\ state.device = "CPU"
    /\ call.calls < MaxCalls
    /\ \E entries \in FinishArgs :
         LET res == verify_cpu_generic(entries, start_hash)
         IN  /\ state' = [state EXCEPT !.verification_status = StatusOf(res)]
             /\ call' = [entries |-> entries,
                         ret |-> IF res THEN "true" ELSE "false",
                         calls |-> call.calls + 1]
    /\ UNCHANGED <<pc, gpu_thread, pinned, hist>>
    /\ OtherUnchanged

\* DeviceVerificationData::CPU(): the stored status is returned
FinishVerifyCpu ==
    /\ pc = "ready"
    /\ state.device = "CPU"
    /\ call.calls < MaxCalls
    /\ \E entries \in FinishArgs :
         call' = [entries |-> entries,
                  ret |-> IF state.verification_status = "Success"
                          THEN "true" ELSE "false",
                  calls |-> call.calls + 1]
    /\ UNCHANGED <<pc, state, gpu_thread, pinned, hist>>
    /\ OtherUnchanged

\* DeviceVerificationData::GPU: thread_h.take().unwrap(), then join() blocks
FinishVerifyTake ==
    /\ pc = "ready"
    /\ state.device = "GPU"
    /\ call.calls < MaxCalls
    /\ state.thread_h
    /\ state' = [state EXCEPT !.thread_h = FALSE]
    /\ \E entries \in FinishArgs :
         call' = [entries |-> entries, ret |-> "none", calls |-> call.calls + 1]
    /\ pc' = "join"
    /\ UNCHANGED <<gpu_thread, pinned, hist>>
    /\ OtherUnchanged

\* FinishVerifyNoHandle skipping the join and checking the entries again
FinishVerifyNoHandle_Rerun ==
    /\ pc = "ready"
    /\ state.device = "GPU"
    /\ call.calls < MaxCalls
    /\ ~state.thread_h
    /\ \E entries \in FinishArgs :
         LET res == GpuCheckAll(pinned.hashes, state.tx_hashes, entries)
         IN  /\ state' = [state EXCEPT !.verification_status = StatusOf(res)]
             /\ call' = [entries |-> entries,
                         ret |-> IF res THEN "true" ELSE "false",
                         calls |-> call.calls + 1]
             /\ hist' = [hist EXCEPT !.checks = @ + 1, !.verdicts = @ + 1]
    /\ UNCHANGED <<pc, gpu_thread, pinned>>
    /\ OtherUnchanged

\* thread_h is None: unwrap panics
FinishVerifyNoHandle ==
    /\ pc = "ready"
    /\ state.device = "GPU"
    /\ call.calls < MaxCalls
    /\ ~state.thread_h
    /\ \E entries \in FinishArgs :
         call' = [entries |-> entries, ret |-> "panic", calls |-> call.calls + 1]
    /\ UNCHANGED <<pc, state, gpu_thread, pinned, hist>>
    /\ OtherUnchanged

\* join() returned Err (the worker panicked): unwrap panics
FinishVerifyJoinErr ==
    /\ pc = "join"
    /\ gpu_thread.pc = "panicked"
    /\ call' = [call EXCEPT !.ret = "panic"]
    /\ hist' = [hist EXCEPT !.joins = @ + 1]
    /\ pc' = "ready"
    /\ UNCHANGED <<state, gpu_thread, pinned>>
    /\ OtherUnchanged

\* FinishVerifyJoinOk returning true whatever the check found
FinishVerifyJoinOk_ReturnsTrue ==
    /\ pc = "join"
    /\ gpu_thread.pc = "finished"
    /\ pc' = "ready"
    /\ UNCHANGED gpu_thread
    /\ OtherUnchanged
    /\ LET res == GpuCheckAll(pinned.hashes, state.tx_hashes, call.entries)
       IN  /\ state' = [state EXCEPT
                 !.hashes = FALSE,
                 !.poh_duration_us = @ + ElapsedUs + ElapsedUs,
                 !.verification_status = StatusOf(res)]
           /\ pinned' = [pinned EXCEPT !.refs = 0]
           /\ call' = [call EXCEPT !.ret = "true"]
           /\ hist' = [hist EXCEPT !.joins = @ + 1, !.checks = @ + 1,
                                   !.verdicts = @ + 1]

\* FinishVerifyJoinOk taking the buffer without waiting for the worker
FinishVerifyJoinOk_NoJoin ==
    /\ pc = "join"
    /\ gpu_thread.pc # "panicked"
    /\ pc' = "ready"
    /\ UNCHANGED gpu_thread
    /\ OtherUnchanged
    /\ IF state.hashes /\ pinned.refs = 1 /\ ~pinned.poisoned
       THEN LET res == GpuCheckAll(pinned.hashes, state.tx_hashes, call.entries)
            IN  /\ state' = [state EXCEPT
                      !.hashes = FALSE,
                      !.poh_duration_us = @ + ElapsedUs + ElapsedUs,
                      !.verification_status = StatusOf(res)]
                /\ pinned' = [pinned EXCEPT !.refs = 0]
                /\ call' = [call EXCEPT !.ret = IF res THEN "true" ELSE "false"]
                /\ hist' = [hist EXCEPT !.joins = @ + 1, !.checks = @ + 1,
                                        !.verdicts = @ + 1]
       ELSE /\ state' = [state EXCEPT !.hashes = FALSE]
            /\ call' = [call EXCEPT !.ret = "panic"]
            /\ hist' = [hist EXCEPT !.joins = @ + 1]
            /\ UNCHANGED pinned

\* join() returned the GPU time: the buffer is taken and every entry checked
FinishVerifyJoinOk ==
    /\ pc = "join"
    /\ gpu_thread.pc = "finished"
    /\ pc' = "ready"
    /\ UNCHANGED gpu_thread
    /\ OtherUnchanged
    /\ IF state.hashes /\ pinned.refs = 1 /\ ~pinned.poisoned
       THEN LET res == GpuCheckAll(pinned.hashes, state.tx_hashes, call.entries)
            IN  /\ state' = [state EXCEPT
                      !.hashes = FALSE,
                      !.poh_duration_us = @ + ElapsedUs + ElapsedUs,
                      !.verification_status = StatusOf(res)]
                /\ pinned' = [pinned EXCEPT !.refs = 0]
                /\ call' = [call EXCEPT !.ret = IF res THEN "true" ELSE "false"]
                /\ hist' = [hist EXCEPT !.joins = @ + 1, !.checks = @ + 1,
                                        !.verdicts = @ + 1]
       ELSE \* hashes.take().unwrap(), expect("unwrap Arc") or expect("into_inner")
            /\ state' = [state EXCEPT !.hashes = FALSE]
            /\ call' = [call EXCEPT !.ret = "panic"]
            /\ hist' = [hist EXCEPT !.joins = @ + 1]
            /\ UNCHANGED pinned

Next ==
    \/ StartVerifySigFail
    \/ StartVerifyCpu
    \/ StartVerifySpawn
    \/ StartVerifyReturn
    \/ GpuThreadLock
    \/ GpuThreadDone
    \/ GpuThreadPanic
    \/ FinishVerifyCpu
    \/ FinishVerifyTake
    \/ FinishVerifyNoHandle
    \/ FinishVerifyJoinErr
    \/ FinishVerifyJoinOk

Spec == Init /\ [][Next]_vars

(***************************************************************************)
(* Properties of the verification state machine, checked under Spec.       *)
(***************************************************************************)
Terminal == {"Success", "Failure"}

\* C1: the status of a verification state changes at most once, only from
\* Pending to Success or Failure and only inside finish_verify (while it
\* joins the worker); a terminal status never changes again.  The only other
\* change is the creation of the state by start_verify.
C1_StatusChangesOnce ==
    [][state'.verification_status # state.verification_status =>
        \/ /\ state.verification_status = "NoState"
           /\ pc \in {"idle", "spawned"}
           /\ state'.verification_status \in Terminal \cup {"Pending"}
        \/ /\ state.verification_status = "Pending"
           /\ state'.verification_status \in Terminal
           /\ pc = "join"]_vars

\* a GPU state that became terminal and was then passed to finish_verify again
C1_Witness ==
    /\ state.device = "GPU"
    /\ state.verification_status \in Terminal
    /\ call.calls >= 2

\* what the claim C2 calls a linked slice: every stored hash equals next_hash
\* of the stored previous hash
ChainLinked ==
    \A i \in 1..Len(slice) :
        slice[i].hash = next_hash(IF i = 1 THEN start_hash ELSE slice[i - 1].hash,
                                  slice[i].num_hashes, slice[i].transactions)

\* C2: with the signatures verified, start_verify followed by finish_verify on
\* the same slice returns true exactly when every stored hash equals next_hash
\* of the stored previous hash.  Stated for the slices drawn entry by entry.
C2_VerifyIffLinked ==
    (/\ pc = "ready"
     /\ Len(slice) <= MaxLen
     /\ call.calls = 1
     /\ call.entries = slice
     /\ call.ret \in {"true", "false"}
     /\ hist.sig_res = TRUE)
    => ((call.ret = "true") <=> ChainLinked)

\* C4: when signature verification fails, start_verify returns at once a
\* Failure state with poh_duration_us = 0 and the CPU payload; no PoH backend
\* has run and no worker was spawned.  A PoH backend only ever runs after
\* signature verification has succeeded.
C4_SigFailureIsImmediate ==
    /\ (pc # "idle" /\ ~verify_transaction_signatures(slice, secp256k1))
         => /\ pc = "ready"
            /\ state.verification_status = "Failure"
            /\ state.poh_duration_us = 0
            /\ state.device = "CPU"
            /\ hist.backend = "none"
            /\ hist.spawned = 0
            /\ gpu_thread.pc = "none"
    /\ (hist.backend # "none" \/ gpu_thread.pc # "none")
         => verify_transaction_signatures(slice, secp256k1)

\* start_verify has returned, with the GPU entry point available, for a slice
\* whose second entry carries a transaction with a bad signature
C4_Witness ==
    /\ pc = "ready"
    /\ ~verify_transaction_signatures(slice, secp256k1)
    /\ gpu_api
    /\ Len(slice) = 2
    /\ slice[2].transactions = <<txBad>>

\* C5: the state start_verify returns is Pending, with a GPU payload holding a
\* worker handle, exactly when the signatures verified and the GPU entry point
\* is available; otherwise it is terminal with the CPU payload and, when the
\* signatures verified, carries the verdict of the CPU backend verify_cpu
\* selects.
C5_PendingIffGpu ==
    (pc = "ready" /\ call.calls = 0) =>
      LET sig_ok == verify_transaction_signatures(slice, secp256k1)
      IN  /\ (state.verification_status = "Pending") <=> (sig_ok /\ gpu_api)
          /\ (sig_ok /\ gpu_api) =>
               /\ state.device = "GPU"
               /\ state.thread_h
               /\ gpu_thread.pc # "none"
          /\ ~(sig_ok /\ gpu_api) =>
               /\ state.verification_status \in Terminal
               /\ state.device = "CPU"
               /\ sig_ok =>
                    /\ \E a \in BOOLEAN, b \in BOOLEAN, c \in BOOLEAN :
                         hist.backend = verify_cpu_backend(a, b, c, Len(slice))
                    /\ state.verification_status =
                         StatusOf(CASE hist.backend = "simd16" ->
                                         verify_cpu_x86_simd(slice, start_hash,
                                                             SimdLenAvx512)
                                    [] hist.backend = "simd8" ->
                                         verify_cpu_x86_simd(slice, start_hash,
                                                             SimdLenAvx2)
                                    [] OTHER ->
                                         verify_cpu_generic(slice, start_hash))

\* start_verify returned a Failure decided by a CPU backend, not by the
\* signatures
C5_Witness ==
    /\ pc = "ready"
    /\ call.calls = 0
    /\ ~gpu_api
    /\ hist.sig_res = TRUE
    /\ state.verification_status = "Failure"
    /\ Len(slice) > 0

\* C6: when finish_verify has returned, its result is true exactly when the
\* status is Success, and the status is not Pending; on a state with the CPU
\* payload a finish_verify call changes no field of the state and returns
\* what the call before it returned.
C6_ResultMatchesStatus ==
    /\ [](( pc = "ready" /\ call.ret \in {"true", "false"}) =>
            /\ (call.ret = "true") <=> (state.verification_status = "Success")
            /\ state.verification_status # "Pending")
    /\ [][(state.device = "CPU" /\ call'.calls # call.calls) =>
            /\ state' = state
            /\ call'.ret \in {"true", "false"}
            /\ call.ret # "none" => call'.ret = call.ret]_vars

\* a GPU state whose finish_verify returned false
C6_Witness ==
    /\ pc = "ready"
    /\ state.device = "GPU"
    /\ call.ret = "false"
    /\ call.entries = slice

\* C7: on a GPU state the worker is joined at most once, the entries are
\* checked at most once and at most one verdict is returned; once a
\* finish_verify call has joined a worker that ended normally all three have
\* happened exactly once; a later finish_verify call changes nothing of the
\* state and returns no verdict.
C7_FinalizedOnce ==
    /\ [](/\ hist.joins <= 1
          /\ hist.checks <= 1
          /\ hist.verdicts <= 1
          /\ (state.device = "GPU" /\ pc = "ready" /\ call.calls >= 1
                /\ gpu_thread.pc = "finished")
               => (hist.joins = 1 /\ hist.checks = 1 /\ hist.verdicts = 1))
    /\ [][(state.device = "GPU" /\ call.calls >= 1 /\ call'.calls > call.calls) =>
            /\ state' = state
            /\ hist' = hist
            /\ pinned' = pinned
            /\ call'.ret = "panic"]_vars

\* a second finish_verify call was made on a finalized GPU state
C7_Witness ==
    /\ state.device = "GPU"
    /\ hist.checks = 1
    /\ state.verification_status = "Success"
    /\ call.calls = 2
    /\ call.ret = "panic"

\* C8: once poh_verify_many has returned non-zero the verification has no
\* verdict: the status is never Success or Failure and finish_verify returns
\* no boolean.
C8_GpuFailureIsFatal ==
    gpu_thread.res # 0 =>
        /\ state.verification_status \notin Terminal
        /\ call.ret \notin {"true", "false"}
        /\ hist.verdicts = 0

\* finish_verify was called after the native call failed, and called again
C8_Witness ==
    /\ gpu_thread.res # 0
    /\ hist.joins = 1
    /\ call.calls = 2
    /\ call.ret = "panic"

(***************************************************************************)
(* The PoH backends side by side: one slice and start hash, the verdict of *)
(* verify_cpu_generic, of verify_cpu_x86_simd with 8 and with 16 lanes,    *)
(* and of the GPU path (the worker's native call, then the finalization    *)
(* of finish_verify on the same slice).                                    *)
(***************************************************************************)
\* start_verify's buffers after a native call that returned zero, checked by
\* finish_verify against the slice itself
GpuVerdict(entries, start) ==
    GpuCheckAll(PohVerifyMany(GpuHashes(entries, start), GpuNumHashes(entries)),
                GpuTxHashes(entries), entries)

IdleVerify ==
    /\ lib = NoLib
    /\ secp256k1 = TRUE
    /\ gpu_api = FALSE
    /\ pc = "idle"
    /\ state = NoState
    /\ gpu_thread = NoThread
    /\ pinned = NoPinned
    /\ call = NoCall
    /\ hist = NoHist

VerifyUnchanged ==
    UNCHANGED <<secp256k1, gpu_api, pc, state, gpu_thread, pinned, call, hist,
                lib>>

InitBackends ==
    /\ start_hash \in StartHashes
    /\ slice \in Slices(start_hash)
    /\ bk = NoBk
    /\ tk = NoTk
    /\ mk = NoMk
    /\ tm = NoTm
    /\ IdleVerify

RunBackends ==
    /\ ~bk.done
    /\ bk' = [done |-> TRUE,
              generic |-> verify_cpu_generic(slice, start_hash),
              simd8 |-> verify_cpu_x86_simd(slice, start_hash, SimdLenAvx2),
              simd16 |-> verify_cpu_x86_simd(slice, start_hash, SimdLenAvx512),
              gpu |-> GpuVerdict(slice, start_hash)]
    /\ UNCHANGED <<slice, start_hash, tk, mk, tm>>
    /\ VerifyUnchanged

NextBackends == RunBackends

SpecBackends == InitBackends /\ [][NextBackends]_vars

\* C3: for every slice and start hash the scalar backend, the SIMD backend
\* with 8 and with 16 lanes and the GPU backend return the same verdict.
C3_BackendsAgree ==
    bk.done => /\ bk.simd8 = bk.generic
               /\ bk.simd16 = bk.generic
               /\ bk.gpu = bk.generic

(***************************************************************************)
(* verify_tick_hash_count (lines 618-640).  The counter is an unsigned     *)
(* integer of MaxU64 + 1 values; an addition that leaves the range panics  *)
(* in a build with overflow checks and wraps in a build without.           *)
(***************************************************************************)
U64 == 0..MaxU64

RECURSIVE TickLoop(_, _, _, _, _)
\* the for loop from entry i on, and the final comparison
TickLoop(entries, i, tick_hash_count, hashes_per_tick, overflow_checks) ==
    IF i > Len(entries)
    THEN [ret |-> IF tick_hash_count < hashes_per_tick THEN "true" ELSE "false",
          tick_hash_count |-> tick_hash_count]
    ELSE LET sum == tick_hash_count + entries[i].num_hashes
             count == sum % (MaxU64 + 1)
         IN  IF sum > MaxU64 /\ overflow_checks
             THEN [ret |-> "panic", tick_hash_count |-> tick_hash_count]
             ELSE IF is_tick(entries[i])
                  THEN IF count # hashes_per_tick
                       THEN [ret |-> "false", tick_hash_count |-> count]
                       ELSE TickLoop(entries, i + 1, 0, hashes_per_tick,
                                     overflow_checks)
                  ELSE TickLoop(entries, i + 1, count, hashes_per_tick,
                                overflow_checks)

\* verify_tick_hash_count without the test of hashes_per_tick == 0
verify_tick_hash_count_NoDisable(entries, count, hashes_per_tick, checks) ==
    TickLoop(entries, 1, count, hashes_per_tick, checks)

verify_tick_hash_count(entries, count, hashes_per_tick, checks) ==
    IF hashes_per_tick = 0
    THEN [ret |-> "true", tick_hash_count |-> count]
    ELSE TickLoop(entries, 1, count, hashes_per_tick, checks)

\* the entries verify_tick_hash_count reads: num_hashes and whether it is a tick
TickEntries ==
    { Entry(n, Zero, txs) : <<n, txs>> \in U64 \X {<<>>, <<txA>>} }

RECURSIVE SeqsUpTo(_, _)
SeqsUpTo(S, len) ==
    IF len = 0 THEN { <<>> }
    ELSE LET shorter == SeqsUpTo(S, len - 1)
         IN  shorter \cup { Append(q, e) : <<q, e>> \in
                              { w \in shorter \X S : Len(w[1]) = len - 1 } }

InitTick ==
    /\ slice \in SeqsUpTo(TickEntries, MaxTickLen)
    /\ start_hash = Zero
    /\ \E carry \in U64, hashes_per_tick \in U64, overflow_checks \in BOOLEAN :
         tk = [done |-> FALSE, carry_in |-> carry,
               hashes_per_tick |-> hashes_per_tick,
               overflow_checks |-> overflow_checks,
               tick_hash_count |-> carry, ret |-> "none",
               split |-> NoSplit]
    /\ bk = NoBk
    /\ mk = NoMk
    /\ tm = NoTm
    /\ IdleVerify

VerifyTickHashCount ==
    /\ ~tk.done
    /\ LET r == verify_tick_hash_count(slice, tk.tick_hash_count,
                                       tk.hashes_per_tick, tk.overflow_checks)
       IN  tk' = [tk EXCEPT !.done = TRUE, !.ret = r.ret,
                            !.tick_hash_count = r.tick_hash_count]
    /\ UNCHANGED <<slice, start_hash, bk, mk, tm>>
    /\ VerifyUnchanged

\* the same entries given to verify_tick_hash_count as two consecutive
\* slices, the counter of the first call handed to the second; a caller
\* stops at the first call that does not return true
VerifyTickSplit ==
    /\ ~tk.split.done
    /\ \E at \in 0..Len(slice) :
         LET first == verify_tick_hash_count(SubSeq(slice, 1, at), tk.carry_in,
                                             tk.hashes_per_tick, tk.overflow_checks)
             second == IF first.ret = "true"
                       THEN verify_tick_hash_count(
                                SubSeq(slice, at + 1, Len(slice)),
                                first.tick_hash_count,
                                tk.hashes_per_tick, tk.overflow_checks)
                       ELSE [ret |-> "none",
                             tick_hash_count |-> first.tick_hash_count]
         IN  tk' = [tk EXCEPT !.split =
                       [done |-> TRUE, at |-> at, first |-> first.ret,
                        second |-> second.ret,
                        tick_hash_count |-> second.tick_hash_count]]
    /\ UNCHANGED <<slice, start_hash, bk, mk, tm>>
    /\ VerifyUnchanged

NextTick == VerifyTickHashCount \/ VerifyTickSplit

SpecTick == InitTick /\ [][NextTick]_vars

RECURSIVE ExactCount(_, _, _, _)
\* the hashes accumulated, as an unbounded integer, from entry i on: "bad" as
\* soon as a tick does not carry exactly hashes_per_tick, else what remains
\* after the last tick
ExactCount(entries, i, count, hashes_per_tick) ==
    IF i > Len(entries) THEN count
    ELSE LET sum == count + entries[i].num_hashes
         IN  IF entries[i].transactions = <<>>
             THEN IF sum = hashes_per_tick
                  THEN ExactCount(entries, i + 1, 0, hashes_per_tick)
                  ELSE -1
             ELSE ExactCount(entries, i + 1, sum, hashes_per_tick)

\* C9: with hashes_per_tick > 0, verify_tick_hash_count accepts exactly when
\* every tick carries exactly hashes_per_tick hashes accumulated since the
\* tick before it (or the slice start, the incoming carry included) and what
\* remains after the last tick is below hashes_per_tick; the carry is then
\* that remainder.
C9_TickCountExact ==
    (tk.done /\ tk.hashes_per_tick > 0) =>
      LET exact == ExactCount(slice, 1, tk.carry_in, tk.hashes_per_tick)
      IN  /\ (tk.ret = "true") <=> (exact >= 0 /\ exact < tk.hashes_per_tick)
          /\ tk.ret = "true" => tk.tick_hash_count = exact

\* C10: with hashes_per_tick == 0, verify_tick_hash_count returns true for
\* every slice and carry and leaves the carry as it was.
C10_DisabledAcceptsAll ==
    (tk.done /\ tk.hashes_per_tick = 0) =>
        /\ tk.ret = "true"
        /\ tk.tick_hash_count = tk.carry_in

\* hashing disabled, a non-zero carry and a slice with a tick that has hashes
C10_Witness ==
    /\ tk.done
    /\ tk.hashes_per_tick = 0
    /\ tk.carry_in > 0
    /\ Len(slice) = MaxTickLen
    /\ \E i \in 1..Len(slice) : is_tick(slice[i]) /\ slice[i].num_hashes > 0
    /\ tk.ret = "true"

RECURSIVE ExactRun(_, _, _, _)
\* where a run over entries i.. ends when the hashes are counted as unbounded
\* integers: at the first tick that does not carry exactly hashes_per_tick
\* ("tick", with the count up to and including it), or at the slice end
\* ("end" when the remainder is not below hashes_per_tick, else "accept")
ExactRun(entries, i, count, hashes_per_tick) ==
    IF i > Len(entries)
    THEN [at |-> IF count < hashes_per_tick THEN "accept" ELSE "end",
          index |-> 0, carry |-> count]
    ELSE LET sum == count + entries[i].num_hashes
         IN  IF entries[i].transactions = <<>>
             THEN IF sum # hashes_per_tick
                  THEN [at |-> "tick", index |-> i, carry |-> sum]
                  ELSE ExactRun(entries, i + 1, 0, hashes_per_tick)
             ELSE ExactRun(entries, i + 1, sum, hashes_per_tick)

\* C11: when verify_tick_hash_count rejects at a tick, the carry is the count
\* accumulated up to and including that tick and nothing of a later entry;
\* when it rejects at the slice end, the carry is the trailing remainder,
\* which is at least hashes_per_tick.
C11_RejectKeepsCount ==
    (tk.done /\ tk.hashes_per_tick > 0 /\ tk.ret = "false") =>
      LET exact == ExactRun(slice, 1, tk.carry_in, tk.hashes_per_tick)
      IN  /\ exact.at \in {"tick", "end"}
          /\ tk.tick_hash_count = exact.carry
          /\ exact.at = "end" => tk.tick_hash_count >= tk.hashes_per_tick


(***************************************************************************)
(* Entry construction (lines 122-147 and 647-684).  Every operator returns *)
(* what the function returns and what it leaves in its &mut arguments.     *)
(***************************************************************************)
\* Entry::new without the promotion of num_hashes
EntryNew_NoPromote(prev_hash, num_hashes, transactions) ==
    Entry(num_hashes, next_hash(prev_hash, num_hashes, transactions), transactions)

\* Entry::new hashing as for a tick whatever the transactions
EntryNew_NoMixin(prev_hash, num_hashes, transactions) ==
    LET n == IF num_hashes = 0 /\ transactions # <<>> THEN 1 ELSE num_hashes
    IN  Entry(n, next_hash(prev_hash, n, <<>>), transactions)

\* Entry::new
EntryNew(prev_hash, num_hashes, transactions) ==
    LET n == IF num_hashes = 0 /\ transactions # <<>> THEN 1 ELSE num_hashes
    IN  Entry(n, next_hash(prev_hash, n, transactions), transactions)

\* Entry::new_mut: the entry, *start_hash and *num_hashes after the call
EntryNewMut(start_hash_in, num_hashes, transactions) ==
    LET entry == EntryNew(start_hash_in, num_hashes, transactions)
    IN  [entry |-> entry, start_hash |-> entry.hash, num_hashes |-> 0]

\* next_entry_mut leaving *start as it was
next_entry_mut_NoAdvance(start, num_hashes, transactions) ==
    [entry |-> EntryNew(start, num_hashes, transactions), start |-> start]

\* next_entry_mut: the entry and *start after the call
next_entry_mut(start, num_hashes, transactions) ==
    LET entry == EntryNew(start, num_hashes, transactions)
    IN  [entry |-> entry, start |-> entry.hash]

RECURSIVE CreateTicksLoop(_, _, _, _)
\* the for loop of create_ticks once ticks holds the entries pushed so far
CreateTicksLoop(num_ticks, hashes_per_tick, hash, ticks) ==
    IF Len(ticks) >= num_ticks THEN ticks
    ELSE LET r == next_entry_mut(hash, hashes_per_tick, <<>>)
         IN  CreateTicksLoop(num_ticks, hashes_per_tick, r.start,
                             Append(ticks, r.entry))

create_ticks(num_ticks, hashes_per_tick, hash) ==
    CreateTicksLoop(num_ticks, hashes_per_tick, hash, <<>>)

RECURSIVE CreateRandomTicksLoop(_, _, _, _)
\* the for loop of create_random_ticks: every vector it can return, each
\* iteration drawing hashes_per_tick from gen_range(1, max_hashes_per_tick)
CreateRandomTicksLoop(num_ticks, max_hashes_per_tick, hash, ticks) ==
    IF Len(ticks) >= num_ticks THEN {ticks}
    ELSE UNION { LET r == next_entry_mut(hash, hashes_per_tick, <<>>)
                 IN  CreateRandomTicksLoop(num_ticks, max_hashes_per_tick,
                                           r.start, Append(ticks, r.entry)) :
                 hashes_per_tick \in 1..(max_hashes_per_tick - 1) }

\* create_random_ticks: gen_range(low, high) panics unless low < high
create_random_ticks(num_ticks, max_hashes_per_tick, hash) ==
    IF num_ticks > 0 /\ max_hashes_per_tick <= 1
    THEN [panic |-> TRUE, rets |-> {<<>>}]
    ELSE [panic |-> FALSE,
          rets |-> CreateRandomTicksLoop(num_ticks, max_hashes_per_tick, hash, <<>>)]

\* next_entry promoting num_hashes as Entry::new does
next_entry_AutoCorrect(prev_hash, num_hashes, transactions) ==
    [panic |-> FALSE, ret |-> <<EntryNew(prev_hash, num_hashes, transactions)>>]

\* next_entry: the assertion, then the entry
next_entry(prev_hash, num_hashes, transactions) ==
    IF ~(num_hashes > 0 \/ transactions = <<>>)
    THEN [panic |-> TRUE, ret |-> <<>>]
    ELSE [panic |-> FALSE,
          ret |-> <<Entry(num_hashes,
                          next_hash(prev_hash, num_hashes, transactions),
                          transactions)>>]

\* EntrySlice::tick_count
tick_count(entries) == Cardinality({i \in 1..Len(entries) : is_tick(entries[i])})

(***************************************************************************)
(* EntrySlice::verify (lines 343-346) as one call: start_verify with a     *)
(* default recycler and secp256k1_program_enabled = true, then             *)
(* finish_verify on the same slice.  The environment of a call is what the *)
(* process finds: the GPU entry point, the SIMD library, the CPU features  *)
(* and whether the native GPU call returns zero.                           *)
(***************************************************************************)
Envs ==
    [gpu_api : BOOLEAN, simd_api : BOOLEAN, has_avx2 : BOOLEAN,
     has_avx512 : BOOLEAN, native_ok : BOOLEAN]

\* start_verify: the state it returns, the backend it ran and, on the GPU
\* path, the buffers handed to the worker
start_verify(entries, start, secp256k1_program_enabled, env) ==
    IF ~verify_transaction_signatures(entries, secp256k1_program_enabled)
    THEN [state |-> CpuState("Failure", 0, ElapsedUs), backend |-> "none",
          hashes |-> <<>>, num_hashes |-> <<>>]
    ELSE IF ~env.gpu_api
    THEN LET backend == verify_cpu_backend(env.simd_api, env.has_avx2,
                                           env.has_avx512, Len(entries))
             res == RunCpuBackend(backend, entries, start)
         IN  [state |-> CpuState(StatusOf(res), ElapsedUs, ElapsedUs),
              backend |-> backend, hashes |-> <<>>, num_hashes |-> <<>>]
    ELSE [state |-> GpuState(ElapsedUs, ElapsedUs, GpuTxHashes(entries)),
          backend |-> "gpu", hashes |-> GpuHashes(entries, start),
          num_hashes |-> GpuNumHashes(entries)]

\* finish_verify returning true for every state with the CPU payload
finish_verify_CpuTrue(started, entries, env) ==
    IF started.state.device = "CPU"
    THEN "true"
    ELSE IF ~env.native_ok
    THEN "panic"
    ELSE IF GpuCheckAll(PohVerifyMany(started.hashes, started.num_hashes),
                        started.state.tx_hashes, entries)
    THEN "true" ELSE "false"

\* finish_verify: what the call returns ("panic" when join().unwrap() does)
finish_verify(started, entries, env) ==
    IF started.state.device = "CPU"
    THEN IF started.state.verification_status = "Success" THEN "true" ELSE "false"
    ELSE IF ~env.native_ok
    THEN "panic"
    ELSE IF GpuCheckAll(PohVerifyMany(started.hashes, started.num_hashes),
                        started.state.tx_hashes, entries)
    THEN "true" ELSE "false"

\* EntrySlice::verify
SliceVerify(entries, start, env) ==
    finish_verify(start_verify(entries, start, TRUE, env), entries, env)

\* what verify returns in environment env for a slice whose signatures verify
\* and whose PoH verdict is v: the worker's panic where the native call fails
Returned(v, env) == IF env.gpu_api /\ ~env.native_ok THEN "panic" ELSE v

(***************************************************************************)
(* A caller building entries.  start_hash is the caller's running hash:    *)
(* the functions taking &mut advance it, the others read it.  mk records   *)
(* the last call: its arguments, what it returned and whether it panicked. *)
(***************************************************************************)
BuildTxLists == {<<>>, <<txA>>, <<txA, txB>>}

\* (num_ticks, hashes_per_tick) of a create_ticks call: short vectors at
\* every call, vectors long enough for the SIMD backends at the first call
CreateTicksArgs(first_call) ==
    ((0..MaxLen) \X NumHashesValues) \cup
    (IF first_call THEN {Avx2MinLen, Avx512MinLen + 1} \X {0, 1} ELSE {})

MkCall(op, n, txs, num_ticks, ret, hash, counter, panic, depth) ==
    [op |-> op, prev |-> start_hash, num_hashes |-> n, transactions |-> txs,
     num_ticks |-> num_ticks, ret |-> ret, hash |-> hash, counter |-> counter,
     panic |-> panic, depth |-> depth]

BuildUnchanged ==
    /\ UNCHANGED <<slice, bk, tk, tm>>
    /\ VerifyUnchanged

InitBuild ==
    /\ start_hash \in StartHashes
    /\ slice = <<>>
    /\ bk = NoBk
    /\ tk = NoTk
    /\ mk = NoMk
    /\ tm = NoTm
    /\ IdleVerify

CallNextHash ==
    /\ \E n \in NumHashesValues, txs \in BuildTxLists :
         mk' = MkCall("next_hash", n, txs, 0, <<>>, next_hash(start_hash, n, txs),
                      n, FALSE, mk.depth)
    /\ UNCHANGED start_hash
    /\ BuildUnchanged

CallEntryNew ==
    /\ \E n \in NumHashesValues, txs \in BuildTxLists :
         mk' = MkCall("Entry::new", n, txs, 0, <<EntryNew(start_hash, n, txs)>>,
                      Zero, n, FALSE, mk.depth)
    /\ UNCHANGED start_hash
    /\ BuildUnchanged

CallEntryNewMut ==
    /\ mk.depth < MaxDepth
    /\ \E n \in NumHashesValues, txs \in BuildTxLists :
         LET r == EntryNewMut(start_hash, n, txs)
         IN  /\ mk' = MkCall("Entry::new_mut", n, txs, 0, <<r.entry>>, Zero,
                             r.num_hashes, FALSE, mk.depth + 1)
             /\ start_hash' = r.start_hash
    /\ BuildUnchanged

CallNextEntry ==
    /\ \E n \in NumHashesValues, txs \in BuildTxLists :
         LET r == next_entry(start_hash, n, txs)
         IN  mk' = MkCall("next_entry", n, txs, 0, r.ret, Zero, n, r.panic,
                          mk.depth)
    /\ UNCHANGED start_hash
    /\ BuildUnchanged

CallNextEntryMut ==
    /\ mk.depth < MaxDepth
    /\ \E n \in NumHashesValues, txs \in BuildTxLists :
         LET r == next_entry_mut(start_hash, n, txs)
         IN  /\ mk' = MkCall("next_entry_mut", n, txs, 0, <<r.entry>>, Zero, n,
                             FALSE, mk.depth + 1)
             /\ start_hash' = r.start
    /\ BuildUnchanged

\* create_ticks takes the hash by value: the caller's hash stays
CallCreateTicks ==
    /\ \E args \in CreateTicksArgs(mk.op = "none") :
         mk' = MkCall("create_ticks", args[2], <<>>, args[1],
                      create_ticks(args[1], args[2], start_hash), Zero, args[2],
                      FALSE, mk.depth)
    /\ UNCHANGED start_hash
    /\ BuildUnchanged

CallCreateRandomTicks ==
    /\ \E num_ticks \in 0..MaxLen, max \in 0..(MaxNumHashes + 1) :
         LET r == create_random_ticks(num_ticks, max, start_hash)
         IN  \E ticks \in r.rets :
               mk' = MkCall("create_random_ticks", max, <<>>, num_ticks, ticks,
                            Zero, max, r.panic, mk.depth)
    /\ UNCHANGED start_hash
    /\ BuildUnchanged

NextBuild ==
    \/ CallNextHash
    \/ CallEntryNew
    \/ CallEntryNewMut
    \/ CallNextEntry
    \/ CallNextEntryMut
    \/ CallCreateTicks
    \/ CallCreateRandomTicks

SpecBuild == InitBuild /\ [][NextBuild]_vars

(***************************************************************************)
(* Properties of entry construction, checked under SpecBuild.              *)
(***************************************************************************)
\* C12: every entry returned by Entry::new, Entry::new_mut, next_entry,
\* next_entry_mut, create_ticks or create_random_ticks has transactions only
\* with num_hashes > 0 (Entry::new storing 1 where the caller passed 0), and
\* its hash is next_hash of the hash it was built from, for the stored
\* num_hashes and transactions.
C12_BuiltEntriesLinked ==
    /\ \A i \in 1..Len(mk.ret) :
         LET e == mk.ret[i]
         IN  /\ e.num_hashes = 0 => e.transactions = <<>>
             /\ e.hash = next_hash(PrevHash(mk.ret, mk.prev, i), e.num_hashes,
                                   e.transactions)
    /\ (mk.op \in {"Entry::new", "Entry::new_mut", "next_entry_mut"}
          /\ mk.num_hashes = 0 /\ mk.transactions # <<>>)
         => mk.ret[1].num_hashes = 1

\* Entry::new_mut was called with a zero counter and transactions, and left
\* the counter at zero and the running hash at the hash of the entry
C12_Witness ==
    /\ mk.op = "Entry::new_mut"
    /\ mk.num_hashes = 0
    /\ mk.transactions = <<txA, txB>>
    /\ mk.depth = MaxDepth
    /\ mk.ret[1].num_hashes = 1
    /\ mk.counter = 0
    /\ start_hash = mk.ret[1].hash

\* C13: for every start, n and txs the entry Entry::new(start, n, txs)
\* verifies against start, also for n = 0 with transactions, where the entry
\* is built with num_hashes = 1.
C13_NewEntryVerifies ==
    mk.op = "Entry::new" =>
        /\ Len(mk.ret) = 1
        /\ EntryVerify(mk.ret[1], mk.prev)
        /\ (mk.num_hashes = 0 /\ mk.transactions # <<>>) => mk.ret[1].num_hashes = 1

\* Entry::new was called with n = 0 and two transactions
C13_Witness ==
    /\ mk.op = "Entry::new"
    /\ mk.num_hashes = 0
    /\ Len(mk.transactions) = 2
    /\ EntryVerify(mk.ret[1], mk.prev)

\* C14: next_entry with num_hashes = 0 and transactions panics and returns
\* no entry; for every other input it returns one entry whose num_hashes is
\* the argument.
C14_NextEntryFailsFast ==
    mk.op = "next_entry" =>
        IF mk.num_hashes = 0 /\ mk.transactions # <<>>
        THEN mk.panic /\ mk.ret = <<>>
        ELSE /\ ~mk.panic
             /\ Len(mk.ret) = 1
             /\ mk.ret[1].num_hashes = mk.num_hashes
             /\ mk.ret[1].transactions = mk.transactions

\* next_entry was called with num_hashes = 0 and a transaction, and panicked
C14_Witness ==
    /\ mk.op = "next_entry"
    /\ mk.num_hashes = 0
    /\ mk.transactions = <<txA>>
    /\ mk.panic

\* the hash iterations a digest records: plain ones and ones with a mixin
Iterations(h) == Cardinality({k \in 1..Len(h) : h[k] \in {0, -3}})

\* C15: next_hash(start, n, txs) is start when n = 0 and txs is empty;
\* otherwise it is max(n - 1, 0) plain iterations from start followed by one
\* finalizing step, a tick step for no transactions and a record step mixing
\* hash_transactions(txs) otherwise; for n >= 1 that is n iterations.
C15_NextHashSteps ==
    mk.op = "next_hash" =>
      LET n == mk.num_hashes
          txs == mk.transactions
          plain == [k \in 1..(IF n = 0 THEN 0 ELSE n - 1) |-> 0]
      IN  IF n = 0 /\ txs = <<>>
          THEN mk.hash = mk.prev
          ELSE /\ mk.hash = IF txs = <<>>
                            THEN mk.prev \o plain \o <<0>>
                            ELSE mk.prev \o plain \o <<-2>>
                                     \o hash_transactions(txs) \o <<-3>>
               /\ n >= 1 => Iterations(mk.hash) = Iterations(mk.prev) + n

\* next_hash was called with the largest count and transactions, on a hash
\* that is itself the result of iterations
C15_Witness ==
    /\ mk.op = "next_hash"
    /\ mk.num_hashes = MaxNumHashes
    /\ mk.transactions = <<txA, txB>>
    /\ mk.depth > 0
    /\ Iterations(mk.prev) > 0

\* C20: a call of next_entry_mut leaves the caller's running hash equal to
\* the hash of the entry it returned; create_ticks(count, hashes_per_tick,
\* start) returns count entries, all of them ticks (tick_count = count) with
\* num_hashes = hashes_per_tick, and slice verify accepts them against start
\* in every environment (wherever the native GPU call does not fail).
C20_CreateTicksChain ==
    /\ mk.op = "next_entry_mut" => start_hash = mk.ret[1].hash
    /\ mk.op = "create_ticks" =>
         /\ Len(mk.ret) = mk.num_ticks
         /\ tick_count(mk.ret) = mk.num_ticks
         /\ \A i \in 1..Len(mk.ret) :
              is_tick(mk.ret[i]) /\ mk.ret[i].num_hashes = mk.num_hashes
         /\ \A env \in Envs :
              SliceVerify(mk.ret, mk.prev, env) = Returned("true", env)

\* create_ticks returned a vector long enough for the 16-lane backend
C20_Witness ==
    /\ mk.op = "create_ticks"
    /\ mk.num_ticks > Avx512MinLen
    /\ mk.num_hashes = 1
    /\ Len(mk.ret) = mk.num_ticks

(***************************************************************************)
(* Tampering with a built slice, as the tests do (lines 733-799 and        *)
(* 951-975): a slice is built, verified, changed in one place, verified    *)
(* again, and for a changed signature restored and verified once more.     *)
(* slice is the caller's vector, tm.orig the vector as built, tm.at the    *)
(* place changed, tm.first what verify returned before the change and      *)
(* tm.ret what the last call of verify returned on the vector as it is.    *)
(***************************************************************************)
\* the transactions entries are built from: well signed ones, and pairs that
\* differ in their message only
TamperTxPool == {txA, txB, txM, txB1, txCut}

TamperTxLists == { <<t1, t2>> : <<t1, t2>> \in TamperTxPool \X TamperTxPool }

\* one entry with two transactions, alone or after a tick
TxSlices(start) ==
    UNION { LET tick == EntryNew(start, 1, <<>>)
            IN  { <<EntryNew(start, n, txs)>>,
                  <<tick, EntryNew(tick.hash, n, txs)>> } :
            <<n, txs>> \in {0, MaxNumHashes} \X TamperTxLists }

\* the chains create_random_ticks and create_ticks return
TickSlices(start) ==
    UNION { create_random_ticks(k, MaxNumHashes + 1, start).rets : k \in 0..MaxLen }
    \cup { create_ticks(len, 1, start) : len \in LongLens }

InitTamper ==
    /\ start_hash \in StartHashes
    /\ slice \in TxSlices(start_hash) \cup TickSlices(start_hash)
    /\ tm = [NoTm EXCEPT !.orig = slice]
    /\ bk = NoBk
    /\ tk = NoTk
    /\ mk = NoMk
    /\ IdleVerify

TamperUnchanged ==
    /\ UNCHANGED <<start_hash, bk, tk, mk>>
    /\ VerifyUnchanged

\* slice.verify(&start_hash) in the environment the process finds
VerifyCall ==
    /\ tm.ret = "none"
    /\ \E env \in Envs :
         LET started == start_verify(slice, start_hash, TRUE, env)
             simd_call == IF started.backend \in {"simd8", "simd16"} /\ slice # <<>>
                          THEN SimdEntryPoint(BackendSimdLen(started.backend))
                          ELSE "none"
             ret == IF simd_call = "panic" THEN "panic"
                    ELSE finish_verify(started, slice, env)
         IN  tm' = [tm EXCEPT !.ret = ret, !.env = env,
                              !.backend = started.backend,
                              !.simd_call = simd_call,
                              !.first = IF tm.op = "none" THEN ret ELSE @]
    /\ UNCHANGED slice
    /\ TamperUnchanged

\* tm after the vector was changed at place at: the call before is forgotten
Changed(op, at) ==
    [tm EXCEPT !.op = op, !.at = at, !.ret = "none", !.env = NoEnv,
               !.backend = "none", !.simd_call = "none"]

\* the vector with transactions i and j of entry e exchanged
Swapped(entries, e, i, j) ==
    [entries EXCEPT ![e].transactions =
        [@ EXCEPT ![i] = entries[e].transactions[j],
                  ![j] = entries[e].transactions[i]]]

\* e.transactions[i] = txj; e.transactions[j] = txi
ShuffleTwo ==
    /\ tm.op = "none"
    /\ tm.ret # "none"
    /\ \E e \in 1..Len(slice) :
         \E i \in 1..Len(slice[e].transactions), j \in 1..Len(slice[e].transactions) :
           /\ i < j
           /\ slice' = Swapped(slice, e, i, j)
           /\ tm' = Changed("swap", <<e, i, j>>)
    /\ TamperUnchanged

\* e.transactions[t].signatures[k] = sig, for a sig other than the one there
SetSignature ==
    /\ tm.op = "none"
    /\ tm.ret # "none"
    /\ \E e \in 1..Len(slice) :
         \E t \in 1..Len(slice[e].transactions) :
           \E k \in 1..Len(slice[e].transactions[t].signatures) :
             \E sig \in {DefaultSig, 1, 2} \ {slice[e].transactions[t].signatures[k]} :
               /\ slice' = [slice EXCEPT ![e].transactions[t].signatures[k] = sig]
               /\ tm' = Changed("set_sig", <<e, t, k>>)
    /\ TamperUnchanged

\* e.transactions[t].signatures.resize(len - 1, Signature::default())
TruncateSignatures ==
    /\ tm.op = "none"
    /\ tm.ret # "none"
    /\ \E e \in 1..Len(slice) :
         \E t \in 1..Len(slice[e].transactions) :
           LET sigs == slice[e].transactions[t].signatures
           IN  /\ sigs # <<>>
               /\ slice' = [slice EXCEPT ![e].transactions[t].signatures =
                                             SubSeq(sigs, 1, Len(sigs) - 1)]
               /\ tm' = Changed("truncate", <<e, t>>)
    /\ TamperUnchanged

\* the original signature is put back
RestoreSignature ==
    /\ tm.op = "set_sig"
    /\ tm.ret # "none"
    /\ slice' = [slice EXCEPT ![tm.at[1]].transactions[tm.at[2]].signatures[tm.at[3]] =
                     tm.orig[tm.at[1]].transactions[tm.at[2]].signatures[tm.at[3]]]
    /\ tm' = Changed("restore", tm.at)
    /\ TamperUnchanged

\* the digests a stored hash is overwritten with
CorruptValues == {Garbage, Zero, One}

\* entries[i].hash = hash, for a hash other than the one stored
CorruptHash ==
    /\ tm.op = "none"
    /\ tm.ret # "none"
    /\ \E i \in {1, (Len(slice) + 1) \div 2, Len(slice)} \cap (1..Len(slice)) :
         \E h \in (CorruptValues \cup {PrevHash(slice, start_hash, i)})
                    \ {slice[i].hash} :
           /\ slice' = [slice EXCEPT ![i].hash = h]
           /\ tm' = Changed("corrupt", <<i>>)
    /\ TamperUnchanged

NextTamper ==
    \/ VerifyCall
    \/ ShuffleTwo
    \/ SetSignature
    \/ TruncateSignatures
    \/ RestoreSignature
    \/ CorruptHash

SpecTamper == InitTamper /\ [][NextTamper]_vars

(***************************************************************************)
(* Properties of tampering and of the dispatch, checked under SpecTamper.  *)
(***************************************************************************)
\* the entry whose transactions were exchanged, before and after, and the
\* hash both are verified against
SwapEntryBefore == tm.orig[tm.at[1]]
SwapEntryAfter == slice[tm.at[1]]
SwapStart == PrevHash(slice, start_hash, tm.at[1])

C17_SignatureTamperDetected ==
    (tm.first = "true" /\ tm.ret # "none") =>
        /\ tm.op \in {"set_sig", "truncate"} => tm.ret = "false"
        /\ tm.op = "restore" => /\ slice = tm.orig
                                /\ tm.ret = Returned("true", tm.env)

\* a signature of the two-signer transaction was replaced and restored, and
\* verify, on the GPU path, returned true again
C17_Witness ==
    /\ tm.op = "restore"
    /\ tm.first = "true"
    /\ tm.orig[tm.at[1]].transactions[tm.at[2]] = txM
    /\ tm.env.gpu_api
    /\ tm.ret = "true"

\* a chain of ticks with num_hashes >= 1 each, linked from start
TickChain(entries, start) ==
    \A i \in 1..Len(entries) :
        /\ is_tick(entries[i])
        /\ entries[i].num_hashes >= 1
        /\ entries[i].hash = next_hash(PrevHash(entries, start, i),
                                       entries[i].num_hashes, <<>>)

\* C18: a slice built as a chain of ticks from start (num_hashes >= 1 each)
\* verifies against start, and with the stored hash of one entry overwritten
\* by a different value it does not: slice verify returns exactly 'no entry
\* was corrupted' (wherever the native GPU call does not fail).
C18_VerdictIsNotCorrupted ==
    (/\ TickChain(tm.orig, start_hash)
     /\ tm.op \in {"none", "corrupt"}
     /\ tm.ret # "none")
    => tm.ret = Returned(IF tm.op = "corrupt" THEN "false" ELSE "true", tm.env)

\* the last entry of a chain that does not fill its last 16-lane chunk was
\* corrupted, and the 16-lane backend rejected the slice
C18_Witness ==
    /\ TickChain(tm.orig, start_hash)
    /\ tm.op = "corrupt"
    /\ Len(slice) = Avx512MinLen + 1
    /\ tm.at = <<Len(slice)>>
    /\ tm.backend = "simd16"
    /\ tm.ret = "false"

\* C19: where verify_cpu runs it selects the 16-lane backend exactly when
\* the SIMD library is loaded, AVX-512F is present and the slice has 128 or
\* more entries; otherwise the 8-lane backend exactly when the library is
\* loaded, AVX2 is present and the slice has 48 or more entries; otherwise
\* the scalar backend.  The call returns a verdict: no input reaches the
\* 'unsupported simd len' panic.
C19_BackendSelection ==
    (tm.ret # "none" /\ tm.backend \notin {"none", "gpu"}) =>
      LET simd16 == tm.env.simd_api /\ tm.env.has_avx512 /\ Len(slice) >= 128
          simd8 == ~simd16 /\ tm.env.simd_api /\ tm.env.has_avx2 /\ Len(slice) >= 48
      IN  /\ (tm.backend = "simd16") <=> simd16
          /\ (tm.backend = "simd8") <=> simd8
          /\ (tm.backend = "generic") <=> (~simd16 /\ ~simd8)
          /\ tm.simd_call # "panic"
          /\ tm.ret \in {"true", "false"}

\* with AVX2 but not AVX-512F a slice of more than 128 entries went to the
\* 8-lane backend
C19_Witness ==
    /\ tm.backend = "simd8"
    /\ Len(slice) > 128
    /\ tm.env.has_avx2
    /\ ~tm.env.has_avx512
    /\ tm.simd_call = "poh_verify_many_simd_avx2"
    /\ tm.ret = "true"

(***************************************************************************)
(* The caller and the GPU worker, checked under Spec.                      *)
(***************************************************************************)
\* C21: while the native call runs the worker holds the lock of the buffer
\* and the only step that changes the buffer is the worker's; finish_verify
\* takes the buffer only after the worker has terminated and dropped its
\* reference, the lock free and not poisoned, so Arc::try_unwrap and
\* into_inner succeed: a finish_verify call that joined a worker which ended
\* normally does not panic.
C21_BufferOwnedByOne ==
    /\ [](/\ gpu_thread.pc = "running" => (pinned.locked /\ pinned.refs = 2)
          /\ gpu_thread.pc = "finished" =>
               (~pinned.locked /\ ~pinned.poisoned /\ pinned.refs <= 1)
          /\ (pc = "join" /\ gpu_thread.pc = "finished") =>
               (state.hashes /\ pinned.refs = 1)
          /\ (call.calls = 1 /\ call.ret = "panic") => gpu_thread.pc = "panicked")
    /\ [][/\ (gpu_thread.pc = "running" /\ pinned' # pinned)
               => (gpu_thread' # gpu_thread /\ pc' = pc /\ state' = state)
          /\ (pinned' # pinned /\ gpu_thread' = gpu_thread)
               => (pc = "join" /\ gpu_thread.pc = "finished" /\ pinned'.refs = 0)]_vars

\* finish_verify has taken the buffer of a worker that ended normally
C21_Witness ==
    /\ gpu_thread.pc = "finished"
    /\ pinned.refs = 0
    /\ hist.joins = 1
    /\ call.calls = 1
    /\ call.ret = "true"
    /\ Len(slice) = MaxLen

\* C22: start_verify on the GPU path never waits for the worker: once the
\* worker is spawned the return of the Pending state is enabled whatever
\* the worker does, and the worker's steps never disable it; the caller
\* waits only inside finish_verify, where it stays until the worker has
\* terminated.
C22_StartNeverWaits ==
    /\ [](/\ pc = "spawned" => ENABLED StartVerifyReturn
          /\ (pc = "ready" /\ call.calls = 0 /\ state.device = "GPU")
               => state.verification_status = "Pending"
          /\ pc = "join" =>
               ((ENABLED FinishVerifyJoinOk \/ ENABLED FinishVerifyJoinErr)
                  <=> gpu_thread.pc \in {"finished", "panicked"}))
    /\ [][(pc = "spawned" /\ pc' = "ready") =>
            /\ gpu_thread' = gpu_thread
            /\ pinned' = pinned
            /\ state'.verification_status = "Pending"
            /\ state'.tx_hashes = GpuTxHashes(slice)]_vars

\* start_verify has returned Pending and the worker is still in the native call
C22_Witness ==
    /\ pc = "ready"
    /\ call.calls = 0
    /\ state.verification_status = "Pending"
    /\ gpu_thread.pc = "running"
    /\ Len(slice) = MaxLen

(***************************************************************************)
(* The GPU path under fair scheduling, the native call returning zero.     *)
(***************************************************************************)
\* perf_libs::api() is Some (line 524): every run takes the GPU path; the
\* slices long enough for the SIMD thresholds are left to Spec
InitLive == Init /\ gpu_api /\ Len(slice) <= MaxLiveLen

\* the steps of the GPU path without the panic of a non-zero native result
NextLive ==
    \/ StartVerifySigFail
    \/ StartVerifySpawn
    \/ StartVerifyReturn
    \/ GpuThreadLock
    \/ GpuThreadDone
    \/ FinishVerifyCpu
    \/ FinishVerifyTake
    \/ FinishVerifyNoHandle
    \/ FinishVerifyJoinOk

\* the spawned worker is scheduled until its closure ends, and the caller
\* blocked in join() resumes once the worker has ended
SpecLive ==
    /\ InitLive
    /\ [][NextLive]_vars
    /\ WF_vars(GpuThreadLock)
    /\ WF_vars(GpuThreadDone)
    /\ WF_vars(FinishVerifyJoinOk)

\* C23: with a fair worker and a native call returning zero, a finish_verify
\* call that entered join() eventually returns with the status Success or
\* Failure, and after any finish_verify call the status does not stay
\* Pending forever.
C23_FinishTerminates ==
    /\ (pc = "join") ~> (pc = "ready" /\ state.verification_status \in Terminal)
    /\ (call.calls >= 1) ~> (state.verification_status \in Terminal)

\* finish_verify waited for a running worker and returned a verdict
C23_Witness ==
    /\ pc = "ready"
    /\ state.device = "GPU"
    /\ hist.joins = 1
    /\ gpu_thread.pc = "finished"
    /\ state.verification_status = "Failure"

(***************************************************************************)
(* perf_libs: threads calling init_poh() and api().                        *)
(***************************************************************************)
\* the environment variable TEST_PERF_LIBS is set or not; nothing is loaded
InitLib ==
    /\ lib \in {[NoLib EXCEPT !.test_perf_libs = b] : b \in BOOLEAN}
    /\ start_hash = Zero
    /\ slice = <<>>
    /\ secp256k1 = TRUE
    /\ gpu_api = FALSE
    /\ pc = "idle"
    /\ state = NoState
    /\ gpu_thread = NoThread
    /\ pinned = NoPinned
    /\ call = NoCall
    /\ hist = NoHist
    /\ bk = NoBk
    /\ tk = NoTk
    /\ mk = NoMk
    /\ tm = NoTm

LibUnchanged ==
    UNCHANGED <<slice, start_hash, secp256k1, gpu_api, pc, state, gpu_thread,
                pinned, call, hist, bk, tk, mk, tm>>

\* where a thread continues when the call_once of init has returned
AfterInit(t) == IF lib.th[t].op = "api" THEN "api_close" ELSE "idle"

\* line 42: a thread calls init_poh()
CallInitPoh(t) ==
    /\ lib.th[t].pc = "idle"
    /\ lib.th[t].calls < MaxCalls
    /\ lib' = [lib EXCEPT !.th[t] = [pc |-> "init_once", op |-> "init_poh",
                                     calls |-> @.calls + 1, ret |-> "none"]]
    /\ LibUnchanged

\* line 70: a thread calls api()
CallApi(t) ==
    /\ lib.th[t].pc = "idle"
    /\ lib.th[t].calls < MaxCalls
    /\ lib' = [lib EXCEPT !.th[t] = [pc |-> "api_once", op |-> "api",
                                     calls |-> @.calls + 1, ret |-> "none"]]
    /\ LibUnchanged

\* line 52: the first caller of INIT_HOOK.call_once in init runs the closure;
\* a caller arriving while it runs blocks
InitOnceEnter(t) ==
    /\ lib.th[t].pc = "init_once"
    /\ lib.init_hook = "new"
    /\ lib' = [lib EXCEPT !.init_hook = "running", !.th[t].pc = "load"]
    /\ LibUnchanged

\* line 52: call_once of a completed Once returns at once
InitOncePass(t) ==
    /\ lib.th[t].pc = "init_once"
    /\ lib.init_hook = "done"
    /\ lib' = [lib EXCEPT !.th[t].pc = AfterInit(t)]
    /\ LibUnchanged

\* line 65: Container::load(lib_name).ok() is evaluated, the store to API begins
InitLoad(t) ==
    /\ lib.th[t].pc = "load"
    /\ \E ok \in BOOLEAN :
         lib' = [lib EXCEPT !.loads = @ + 1,
                            !.loaded = IF ok THEN "Some" ELSE "None",
                            !.writing = TRUE,
                            !.th[t].pc = "store"]
    /\ LibUnchanged

\* lines 65-66: the store to API ends and the Once is completed
InitStore(t) ==
    /\ lib.th[t].pc = "store"
    /\ lib' = [lib EXCEPT !.API = lib.loaded,
                          !.writing = FALSE,
                          !.writes = @ + 1,
                          !.init_hook = "done",
                          !.th[t].pc = AfterInit(t)]
    /\ LibUnchanged

\* lines 73-75: the first caller of the call_once in api runs the closure,
\* which calls init_poh() only when TEST_PERF_LIBS is set
ApiOnceEnter(t) ==
    /\ lib.th[t].pc = "api_once"
    /\ lib.api_hook = "new"
    /\ lib' = [lib EXCEPT !.api_hook = "running",
                          !.th[t].pc = IF lib.test_perf_libs THEN "init_once"
                                       ELSE "api_close"]
    /\ LibUnchanged

\* line 77: the closure of api has returned, its Once is completed
ApiOnceClose(t) ==
    /\ lib.th[t].pc = "api_close"
    /\ lib' = [lib EXCEPT !.api_hook = "done", !.th[t].pc = "read"]
    /\ LibUnchanged

\* line 73: call_once of the completed Once of api returns at once
ApiOncePass(t) ==
    /\ lib.th[t].pc = "api_once"
    /\ lib.api_hook = "done"
    /\ lib' = [lib EXCEPT !.th[t].pc = "read"]
    /\ LibUnchanged

\* line 80: unsafe { API.as_ref() }; a read while the store of line 65 is in
\* progress is a data race on a static mut, its result is any value
ApiRead(t) ==
    /\ lib.th[t].pc = "read"
    /\ \E v \in (IF lib.writing THEN {"None", "Some", "torn"} ELSE {lib.API}) :
         lib' = [lib EXCEPT !.race = @ \/ lib.writing,
                            !.th[t].pc = "idle",
                            !.th[t].ret = v]
    /\ LibUnchanged

NextLib ==
    \/ \E t \in Threads : CallInitPoh(t)
    \/ \E t \in Threads : CallApi(t)
    \/ \E t \in Threads : InitOnceEnter(t)
    \/ \E t \in Threads : InitOncePass(t)
    \/ \E t \in Threads : InitLoad(t)
    \/ \E t \in Threads : InitStore(t)
    \/ \E t \in Threads : ApiOnceEnter(t)
    \/ \E t \in Threads : ApiOnceClose(t)
    \/ \E t \in Threads : ApiOncePass(t)
    \/ \E t \in Threads : ApiRead(t)

SpecLib == InitLib /\ [][NextLib]_vars

\* the load runs at most once and API is stored at most once
LibLoadedOnce == lib.loads <= 1 /\ lib.writes <= 1

\* C24: for threads calling init_poh and api() in any interleaving, the
\* library load runs at most once, API is written at most once, and no
\* thread reads API through api() while that write is in progress.
C24_InitOnceNoRace ==
    /\ LibLoadedOnce
    /\ ~lib.race
    /\ \A t \in Threads : lib.th[t].ret # "torn"

(***************************************************************************)
(* The signature pass of start_verify, checked under Spec.                 *)
(***************************************************************************)
\* every transaction of every entry of the slice passes verify()
AllTxVerify ==
    \A i \in 1..Len(slice) : \A t \in 1..Len(slice[i].transactions) :
      TxVerify(slice[i].transactions[t])

\* every transaction of every entry of the slice passes verify_precompiles()
AllTxVerifyPrecompiles ==
    \A i \in 1..Len(slice) : \A t \in 1..Len(slice[i].transactions) :
      TxVerifyPrecompiles(slice[i].transactions[t])

\* C25: the result of verify_transaction_signatures that start_verify acted
\* on is true iff every transaction passes verify() and, with
\* secp256k1_program_enabled, verify_precompiles(); with the flag off it is
\* the result of verify() alone; and every order in which the pool examines
\* the transactions gives that same result.
C25_SignaturePass ==
    pc # "idle" =>
      /\ hist.sig_res <=> (AllTxVerify /\ (secp256k1 => AllTxVerifyPrecompiles))
      /\ ~secp256k1 => (hist.sig_res <=> AllTxVerify)
      /\ ParAll(slice, secp256k1, TxPositions(slice)) = {hist.sig_res}

\* the flag is off and a transaction failing only verify_precompiles passed,
\* next to a second transaction
C25_Witness ==
    /\ pc # "idle"
    /\ ~secp256k1
    /\ hist.sig_res
    /\ Len(slice) = MaxLen
    /\ slice[1].transactions = <<txPre>>
    /\ slice[MaxLen].transactions = <<txA>>

(***************************************************************************)
(* The per-entry checks of the batch backends, checked under SpecBackends. *)
(***************************************************************************)
\* invariant I2: an entry with transactions has num_hashes >= 1
I2(entries) ==
    \A k \in 1..Len(entries) :
      entries[k].num_hashes >= 1 \/ entries[k].transactions = <<>>

\* C26: on a slice satisfying I2, for each entry the SIMD check (the lane
\* seeded with the stored previous hash and advanced num_hashes - 1 times,
\* then compare_hashes) and the GPU finalization (the same lane, then the
\* step keyed on the precomputed transaction hash) give the result of
\* Entry::verify against the stored previous hash, with 8 and with 16
\* lanes, whether or not the length is a multiple of the width; the
\* verdicts of the backends are the conjunction over the entries alone.
C26_LaneChecksAgree ==
    (bk.done /\ I2(slice)) =>
      /\ \A k \in 1..Len(slice) :
           LET verified == EntryVerify(slice[k], PrevHash(slice, start_hash, k))
               lane == PohVerifyMany(GpuHashes(slice, start_hash),
                                     GpuNumHashes(slice))[k]
           IN  /\ \A simd_len \in {SimdLenAvx2, SimdLenAvx512} :
                    compare_hashes(SimdLaneHash(slice, start_hash, simd_len, k),
                                   slice[k]) = verified
               /\ GpuCheckEntry(lane, GpuTxHashes(slice)[k], slice[k]) = verified
      /\ bk.simd8 = bk.generic
      /\ bk.simd16 = bk.generic
      /\ bk.gpu = bk.generic

\* a slice of a length that is no multiple of either width, rejected at an
\* entry next to the padding lanes
C26_Witness ==
    /\ bk.done
    /\ I2(slice)
    /\ Len(slice) = Avx2MinLen + 1
    /\ ~bk.generic
    /\ ~bk.simd8

(***************************************************************************)
(* The width of the counter and the split of a run, under SpecTick.        *)
(***************************************************************************)
\* C27: the sums carry + num_hashes of verify_tick_hash_count stay within
\* the unsigned range for every carry and every slice: no run panics on
\* the addition, and a run is accepted only when the count of each tick,
\* taken as an unbounded integer, is hashes_per_tick; no wrap-around turns
\* an over-long run into an accepted one.
C27_SumWithinU64 ==
    (tk.done /\ tk.hashes_per_tick > 0) =>
      LET exact == ExactRun(slice, 1, tk.carry_in, tk.hashes_per_tick)
      IN  /\ tk.ret # "panic"
          /\ tk.ret = "true" => exact.at = "accept"

\* every tick of the sequence has num_hashes >= 1
TicksHaveHashes(entries) ==
    \A i \in 1..Len(entries) : is_tick(entries[i]) => entries[i].num_hashes >= 1

\* C28: for hashes_per_tick > 0 and a sequence whose ticks have
\* num_hashes >= 1, split anywhere into two consecutive slices, the two
\* runs with the carry threaded through both accept iff the run over the
\* whole sequence accepts, and on acceptance the final carry is the same.
C28_SplitEquivalent ==
    (tk.done /\ tk.split.done /\ tk.hashes_per_tick > 0 /\ TicksHaveHashes(slice))
      => /\ (tk.split.first = "true" /\ tk.split.second = "true")
              <=> tk.ret = "true"
         /\ tk.ret = "true" => tk.split.tick_hash_count = tk.tick_hash_count

(***************************************************************************)
(* finish_verify given another slice than start_verify, under Spec.        *)
(***************************************************************************)
\* the first finish_verify call on a GPU state has returned a verdict
GpuFinished ==
    /\ pc = "ready"
    /\ state.device = "GPU"
    /\ call.calls = 1
    /\ call.ret \in {"true", "false"}

\* C29: on a GPU state started on slice, finish_verify(entries) returns true
\* iff at every position below the shorter of the two lengths the
\* finalizing step on the lane of the buffer, with the transaction hash
\* precomputed from slice, yields the hash stored in entries; positions
\* beyond are not checked; given slice itself it is the verdict for slice.
C29_FinishChecksPrefix ==
    GpuFinished =>
      LET lanes == PohVerifyMany(GpuHashes(slice, start_hash), GpuNumHashes(slice))
          checked == 1..Min(Len(slice), Len(call.entries))
      IN  /\ call.ret = "true" <=>
               \A i \in checked :
                 GpuCheckEntry(lanes[i], GpuTxHashes(slice)[i], call.entries[i])
          /\ call.entries = slice =>
               (call.ret = "true" <=> GpuVerdict(slice, start_hash))

\* finish_verify accepted a slice one entry short of the slice start_verify
\* was given, whose last entry does not verify
C29_Witness ==
    /\ GpuFinished
    /\ Len(slice) = MaxLen
    /\ Len(call.entries) = MaxLen - 1
    /\ call.ret = "true"
    /\ ~GpuVerdict(slice, start_hash)

=============================================================================
